---- MODULE Spec2Model ----
(***************************************************************************)
(* substitute(str, fn, {percent, dollar, strict}) of deno_substitute:      *)
(* a single left-to-right scan that replaces $VAR, ${VAR} and %VAR%.       *)
(*                                                                         *)
(* A string is a sequence of one-character strings; the empty string ""    *)
(* is what String.charAt returns beyond the end of the input.  The cursor  *)
(* i is 0-based as in the source.  src/substitute.ts holds two revisions   *)
(* of the function: the one with inclusion tables ("table") and the one    *)
(* with the set of invalid characters ("exclusion"); variant selects one.  *)
(***************************************************************************)
EXTENDS Integers, Sequences, FiniteSets, TLC

VARIABLES str, fn, percent, dollar, strict, variant,
          i, finalString, varName, pc, err, returned, calls, escapes

inputs == <<str, fn, percent, dollar, strict, variant>>
vars == <<str, fn, percent, dollar, strict, variant,
          i, finalString, varName, pc, err, returned, calls, escapes>>

(* Longest input string of the model. *)
MaxLen == 4

(* The characters the inputs are drawn from: the delimiters, the reserved  *)
(* "=" and an identifier character.  Outside a reference "{", "}" and "="  *)
(* are ordinary characters; inside ${ } the characters "$", "{" and "%",   *)
(* and inside % % the characters "$", "{" and "}", are name characters     *)
(* that are not identifier characters.                                     *)
Alphabet == {"$", "{", "}", "%", "=", "a"}

(* The resolvers the inputs are drawn from. *)
Resolvers == {"upperCasePls"}

(* The one key upperCasePls has no value for (RETURN_UNDEFINED in the      *)
(* tests), written in the model's alphabet.                                *)
RETURN_UNDEFINED == <<"a">>

Variants == {"table", "exclusion"}

None == "None"

------------------------------------------------------------------------------
(* Character tables *)

LowerCase == {"a", "b", "c", "d", "e", "f", "g", "h", "i", "j", "k", "l", "m",
              "n", "o", "p", "q", "r", "s", "t", "u", "v", "w", "x", "y", "z"}

UpperCase == {"A", "B", "C", "D", "E", "F", "G", "H", "I", "J", "K", "L", "M",
              "N", "O", "P", "Q", "R", "S", "T", "U", "V", "W", "X", "Y", "Z"}

Digits == {"0", "1", "2", "3", "4", "5", "6", "7", "8", "9"}

(* "\\x60" stands for the grave accent character. *)
GraveAccent == "\\x60"

CHARS_DOLLAR_BRACE ==
    LowerCase \cup UpperCase
      \cup {GraveAccent, "-"} \cup Digits
      \cup {"~", "!", "@", "#", "$", "%", "^", "&", "*", "(", ")", "_", "+"}
      \cup {"[", "]", "{", "|", ";", ":", "'", "\"", ",", ".", "<", ">", "/",
            "?", " "}

CHARS_DOLLAR == LowerCase \cup UpperCase \cup Digits \cup {"_"}

CHARS_PERCENT ==
    LowerCase \cup UpperCase
      \cup {GraveAccent, "-"} \cup Digits
      \cup {"~", "!", "@", "#", "$", "^", "&", "*", "(", ")", "_", "+"}
      \cup {"[", "]", "{", "}", "|", ";", ":", "'", "\"", ",", ".", "<", ">",
            "/", "?", " "}

(* invalidCharacters without the equals sign. *)
invalidCharacters_NoEquals == {"", "\\0"}

(* "\\0" stands for the NUL character. *)
invalidCharacters == {"", "=", "\\0"}

(* The test of the ${VAR} scan: line 134 (table), line 331 (exclusion). *)
BraceSafe(v, char) ==
    IF v = "table" THEN char \in CHARS_DOLLAR_BRACE
    ELSE char # "}" /\ char \notin invalidCharacters

(* The test of the $VAR scan: line 172 (table), line 368 (exclusion). *)
BareSafe(v, char) ==
    IF v = "table" THEN char \in CHARS_DOLLAR
    ELSE char \in LowerCase \cup UpperCase \cup Digits \cup {"_"}

(* The test of the %VAR% scan: line 206 (table), line 404 (exclusion). *)
PercentSafe(v, char) ==
    IF v = "table" THEN char \in CHARS_PERCENT
    ELSE char # "%" /\ char \notin invalidCharacters

------------------------------------------------------------------------------
(* Strings and the resolver *)

(* String.prototype.charAt: "" outside the string. *)
charAt(s, k) == IF k >= 0 /\ k < Len(s) THEN s[k + 1] ELSE ""

(* s + char, where char is one character or "". *)
Cat(s, char) == IF char = "" THEN s ELSE Append(s, char)

(* The letters in order, lower case and upper case. *)
LowerLetters ==
    <<"a", "b", "c", "d", "e", "f", "g", "h", "i", "j", "k", "l", "m",
      "n", "o", "p", "q", "r", "s", "t", "u", "v", "w", "x", "y", "z">>

UpperLetters ==
    <<"A", "B", "C", "D", "E", "F", "G", "H", "I", "J", "K", "L", "M",
      "N", "O", "P", "Q", "R", "S", "T", "U", "V", "W", "X", "Y", "Z">>

(* String.prototype.toUpperCase on one character: a lower-case letter      *)
(* becomes its upper-case letter, every other character of the model has   *)
(* no upper-case form and stays.                                           *)
UpperChar(c) ==
    IF c \in LowerCase
    THEN UpperLetters[CHOOSE k \in 1 .. 26 : LowerLetters[k] = c]
    ELSE c

toUpperCase(s) == [k \in 1 .. Len(s) |-> UpperChar(s[k])]

(* A resolver result: a string, or undefined (some = FALSE). *)
Undefined == [some |-> FALSE, val |-> <<>>]

(* Make the input UPPER CASE unless the input is "RETURN_UNDEFINED" *)
upperCasePls(key) ==
    IF key = RETURN_UNDEFINED THEN Undefined
    ELSE [some |-> TRUE, val |-> toUpperCase(key)]

(* fn(key) *)
Resolve(f, key) ==
    CASE f = "upperCasePls" -> upperCasePls(key)

(* fn(varName) without the ?? "": undefined becomes the text undefined. *)
Coalesce_Undefined(r) ==
    IF r.some THEN r.val ELSE <<"u", "n", "d", "e", "f", "i", "n", "e", "d">>

(* fn(varName) ?? "" *)
Coalesce(r) == IF r.some THEN r.val ELSE <<>>

------------------------------------------------------------------------------
(* The call: its arguments and its local state.  calls is the sequence of *)
(* invocations of fn so far: the key passed, the form of the reference   *)
(* and the cursor at the call.  escapes is the sequence of doubled       *)
(* delimiters collapsed so far: the delimiter and the cursor (on the     *)
(* second one).                                                          *)

Env == [str |-> str, fn |-> fn, percent |-> percent, dollar |-> dollar,
        strict |-> strict, variant |-> variant]

Cur == [i |-> i, finalString |-> finalString, varName |-> varName, pc |-> pc,
        err |-> err, returned |-> returned, calls |-> calls,
        escapes |-> escapes]

Start == [i |-> 0, finalString |-> <<>>, varName |-> <<>>, pc |-> "outer",
          err |-> None, returned |-> FALSE, calls |-> <<>>, escapes |-> <<>>]

(* fn(key) is called for a reference of the given form, the cursor at k. *)
Call(key, form, k) == [key |-> key, form |-> form, at |-> k]

Apply(t) ==
    /\ i' = t.i
    /\ finalString' = t.finalString
    /\ varName' = t.varName
    /\ pc' = t.pc
    /\ err' = t.err
    /\ returned' = t.returned
    /\ calls' = t.calls
    /\ escapes' = t.escapes
    /\ UNCHANGED inputs

RECURSIVE StringsUpTo(_)
StringsUpTo(n) ==
    IF n = 0 THEN {<<>>}
    ELSE LET shorter == StringsUpTo(n - 1)
         IN  shorter \cup {Append(s, c) : s \in {t \in shorter : Len(t) = n - 1},
                                           c \in Alphabet}

Init ==
    /\ str \in StringsUpTo(MaxLen)
    /\ fn \in Resolvers
    /\ percent \in BOOLEAN
    /\ dollar \in BOOLEAN
    /\ strict \in BOOLEAN
    /\ variant \in Variants
    /\ i = Start.i
    /\ finalString = Start.finalString
    /\ varName = Start.varName
    /\ pc = Start.pc
    /\ err = Start.err
    /\ returned = Start.returned
    /\ calls = Start.calls
    /\ escapes = Start.escapes

------------------------------------------------------------------------------
(* The outer loop: one dispatch on str.charAt(i).  Each branch is the set   *)
(* of successors of local state s under arguments e: empty when the branch  *)
(* is not taken.                                                            *)

(* AtDollar that does not read the dollar switch. *)
AtDollar_IgnoresSwitch(e, s) ==
    s.i < Len(e.str) /\ charAt(e.str, s.i) = "$"

(* if (dollar && char === "$") *)
AtDollar(e, s) == s.i < Len(e.str) /\ e.dollar /\ charAt(e.str, s.i) = "$"

(* AtPercent that reads the dollar switch for the percent switch. *)
AtPercent_WrongSwitch(e, s) ==
    s.i < Len(e.str) /\ ~AtDollar(e, s) /\ e.dollar /\ charAt(e.str, s.i) = "%"

(* if (percent && char === "%"), reached when the dollar test failed *)
AtPercent(e, s) ==
    s.i < Len(e.str) /\ ~AtDollar(e, s) /\ e.percent /\ charAt(e.str, s.i) = "%"

(* i < str.length fails: return finalString. *)
Return(e, s) ==
    IF s.pc = "outer" /\ s.i >= Len(e.str)
    THEN {[s EXCEPT !.pc = "done", !.returned = TRUE]}
    ELSE {}

(* DollarEscape that leaves the cursor on the first $. *)
DollarEscape_NoSkip(e, s) ==
    IF s.pc = "outer" /\ AtDollar(e, s) /\ charAt(e.str, s.i + 1) = "$"
    THEN {[s EXCEPT !.finalString = Append(s.finalString, "$"),
                    !.escapes =
                        Append(s.escapes, [char |-> "$", at |-> s.i + 1]),
                    !.pc = "next"]}
    ELSE {}

(* $$ -> "$" *)
DollarEscape(e, s) ==
    IF s.pc = "outer" /\ AtDollar(e, s) /\ charAt(e.str, s.i + 1) = "$"
    THEN {[s EXCEPT !.i = s.i + 1,
                    !.finalString = Append(s.finalString, "$"),
                    !.escapes =
                        Append(s.escapes, [char |-> "$", at |-> s.i + 1]),
                    !.pc = "next"]}
    ELSE {}

AtEmptyBrace(e, s) ==
    /\ AtDollar(e, s)
    /\ charAt(e.str, s.i + 1) = "{"
    /\ charAt(e.str, s.i + 2) = "}"

(* ${} in strict mode: throw NoNameError. *)
NoName(e, s) ==
    IF s.pc = "outer" /\ AtEmptyBrace(e, s) /\ e.strict
    THEN {[s EXCEPT !.i = s.i + 1, !.err = "NoNameError", !.pc = "done"]}
    ELSE {}

(* ${} in lenient mode: add it literally, then break. *)
EmptyBrace(e, s) ==
    IF s.pc = "outer" /\ AtEmptyBrace(e, s) /\ ~e.strict
    THEN {[s EXCEPT !.i = s.i + 2,
                    !.finalString = s.finalString \o <<"$", "{", "}">>,
                    !.pc = "done",
                    !.returned = TRUE]}
    ELSE {}

(* ${ : start scanning a name. *)
BraceOpen(e, s) ==
    IF /\ s.pc = "outer"
       /\ AtDollar(e, s)
       /\ charAt(e.str, s.i + 1) = "{"
       /\ charAt(e.str, s.i + 2) # "}"
    THEN {[s EXCEPT !.i = s.i + 1, !.varName = <<>>, !.pc = "brace"]}
    ELSE {}

(* $ : start scanning a bare name. *)
BareOpen(e, s) ==
    IF /\ s.pc = "outer"
       /\ AtDollar(e, s)
       /\ charAt(e.str, s.i + 1) \notin {"$", "{"}
    THEN {[s EXCEPT !.varName = <<>>, !.pc = "bare"]}
    ELSE {}

(* %% -> "%" *)
PercentEscape(e, s) ==
    IF s.pc = "outer" /\ AtPercent(e, s) /\ charAt(e.str, s.i + 1) = "%"
    THEN {[s EXCEPT !.i = s.i + 1,
                    !.finalString = Append(s.finalString, "%"),
                    !.escapes =
                        Append(s.escapes, [char |-> "%", at |-> s.i + 1]),
                    !.pc = "next"]}
    ELSE {}

(* % : start scanning a name. *)
PercentOpen(e, s) ==
    IF s.pc = "outer" /\ AtPercent(e, s) /\ charAt(e.str, s.i + 1) # "%"
    THEN {[s EXCEPT !.varName = <<>>, !.pc = "percent"]}
    ELSE {}

(* no conditions were met, this is a normal character *)
NormalCharacter(e, s) ==
    IF /\ s.pc = "outer"
       /\ s.i < Len(e.str)
       /\ ~AtDollar(e, s)
       /\ ~AtPercent(e, s)
    THEN {[s EXCEPT !.finalString = Cat(s.finalString, charAt(e.str, s.i)),
                    !.pc = "next"]}
    ELSE {}

(* The update of the outer for loop, reached by continue and by the end of *)
(* the body.                                                               *)
LoopUpdate(e, s) ==
    IF s.pc = "next"
    THEN {[s EXCEPT !.i = s.i + 1, !.pc = "outer"]}
    ELSE {}

------------------------------------------------------------------------------
(* The ${VAR} scan.  At "brace" the scan is about to advance; at           *)
(* "braceTest" char = str.charAt(i) is being tested.                       *)

BraceAdvance(e, s) ==
    IF s.pc = "brace"
    THEN {[s EXCEPT !.i = s.i + 1, !.pc = "braceTest"]}
    ELSE {}

BraceScan(e, s) ==
    IF s.pc = "braceTest" /\ BraceSafe(e.variant, charAt(e.str, s.i))
    THEN {[s EXCEPT !.varName = Append(s.varName, charAt(e.str, s.i)),
                    !.pc = "brace"]}
    ELSE {}

(* BraceClose that resolves the name in strict mode only. *)
BraceClose_StrictOnly(e, s) ==
    IF /\ s.pc = "braceTest"
       /\ ~BraceSafe(e.variant, charAt(e.str, s.i))
       /\ charAt(e.str, s.i) = "}"
    THEN IF e.strict
         THEN {[s EXCEPT !.calls =
                             Append(s.calls, Call(s.varName, "brace", s.i)),
                         !.finalString =
                             s.finalString
                               \o Coalesce(Resolve(e.fn, s.varName)),
                         !.pc = "next"]}
         ELSE {[s EXCEPT !.finalString =
                             s.finalString \o <<"$", "{">> \o s.varName
                               \o <<"}">>,
                         !.pc = "next"]}
    ELSE {}

(* found the matching closing brace: get the value and stop scanning *)
BraceClose(e, s) ==
    IF /\ s.pc = "braceTest"
       /\ ~BraceSafe(e.variant, charAt(e.str, s.i))
       /\ charAt(e.str, s.i) = "}"
    THEN {[s EXCEPT !.calls =
                        Append(s.calls, Call(s.varName, "brace", s.i)),
                    !.finalString =
                        s.finalString \o Coalesce(Resolve(e.fn, s.varName)),
                    !.pc = "next"]}
    ELSE {}

(* BraceThrow without the test of strict. *)
BraceThrow_NoStrictTest(e, s) ==
    IF /\ s.pc = "braceTest"
       /\ ~BraceSafe(e.variant, charAt(e.str, s.i))
       /\ charAt(e.str, s.i) # "}"
    THEN {[s EXCEPT !.err = IF charAt(e.str, s.i) = ""
                             THEN "UnterminatedVariableError"
                             ELSE "BadCharacterError",
                    !.pc = "done"]}
    ELSE {}

(* an invalid character that wasn't the closing brace, strict mode *)
BraceThrow(e, s) ==
    IF /\ s.pc = "braceTest"
       /\ ~BraceSafe(e.variant, charAt(e.str, s.i))
       /\ charAt(e.str, s.i) # "}"
       /\ e.strict
    THEN {[s EXCEPT !.err = IF charAt(e.str, s.i) = ""
                             THEN "UnterminatedVariableError"
                             ELSE "BadCharacterError",
                    !.pc = "done"]}
    ELSE {}

(* BraceLiteral that leaves out the character that ended the scan. *)
BraceLiteral_DropsChar(e, s) ==
    IF /\ s.pc = "braceTest"
       /\ ~BraceSafe(e.variant, charAt(e.str, s.i))
       /\ charAt(e.str, s.i) # "}"
       /\ ~e.strict
    THEN {[s EXCEPT !.finalString =
                        s.finalString \o <<"$", "{">> \o s.varName,
                    !.pc = "next"]}
    ELSE {}

(* Add the variable literal and this character, then stop scanning. *)
BraceLiteral(e, s) ==
    IF /\ s.pc = "braceTest"
       /\ ~BraceSafe(e.variant, charAt(e.str, s.i))
       /\ charAt(e.str, s.i) # "}"
       /\ ~e.strict
    THEN {[s EXCEPT !.finalString =
                        Cat(s.finalString \o <<"$", "{">> \o s.varName,
                            charAt(e.str, s.i)),
                    !.pc = "next"]}
    ELSE {}

------------------------------------------------------------------------------
(* The $VAR scan. *)

BareAdvance(e, s) ==
    IF s.pc = "bare"
    THEN {[s EXCEPT !.i = s.i + 1, !.pc = "bareTest"]}
    ELSE {}

BareScan(e, s) ==
    IF s.pc = "bareTest" /\ BareSafe(e.variant, charAt(e.str, s.i))
    THEN {[s EXCEPT !.varName = Append(s.varName, charAt(e.str, s.i)),
                    !.pc = "bare"]}
    ELSE {}

(* BareEmpty that takes the empty name for an error in strict mode. *)
BareEmpty_StrictThrows(e, s) ==
    IF /\ s.pc = "bareTest"
       /\ ~BareSafe(e.variant, charAt(e.str, s.i))
       /\ s.varName = <<>>
    THEN IF e.strict
         THEN {[s EXCEPT !.err = "NoNameError", !.pc = "done"]}
         ELSE {[s EXCEPT !.finalString =
                             Cat(Append(s.finalString, "$"),
                                 charAt(e.str, s.i)),
                         !.pc = "next"]}
    ELSE {}

(* the character right after the $ is no identifier character: not an error *)
BareEmpty(e, s) ==
    IF /\ s.pc = "bareTest"
       /\ ~BareSafe(e.variant, charAt(e.str, s.i))
       /\ s.varName = <<>>
    THEN {[s EXCEPT !.finalString =
                        Cat(Append(s.finalString, "$"), charAt(e.str, s.i)),
                    !.pc = "next"]}
    ELSE {}

(* BareClose that calls fn only for a key it has not been called with. *)
BareClose_Memoized(e, s) ==
    IF /\ s.pc = "bareTest"
       /\ ~BareSafe(e.variant, charAt(e.str, s.i))
       /\ s.varName # <<>>
    THEN {[s EXCEPT !.calls =
                        IF \E k \in 1 .. Len(s.calls) :
                               s.calls[k].key = s.varName
                        THEN s.calls
                        ELSE Append(s.calls, Call(s.varName, "bare", s.i)),
                    !.finalString =
                        s.finalString \o Coalesce(Resolve(e.fn, s.varName)),
                    !.i = s.i - 1,
                    !.pc = "next"]}
    ELSE {}

(* BareClose that leaves the cursor on the character that ended the name. *)
BareClose_NoRetreat(e, s) ==
    IF /\ s.pc = "bareTest"
       /\ ~BareSafe(e.variant, charAt(e.str, s.i))
       /\ s.varName # <<>>
    THEN {[s EXCEPT !.calls =
                        Append(s.calls, Call(s.varName, "bare", s.i)),
                    !.finalString =
                        s.finalString \o Coalesce(Resolve(e.fn, s.varName)),
                    !.pc = "next"]}
    ELSE {}

(* the name has ended: get the value, and decrement i so that the          *)
(* character that ended it is parsed on the next loop                      *)
BareClose(e, s) ==
    IF /\ s.pc = "bareTest"
       /\ ~BareSafe(e.variant, charAt(e.str, s.i))
       /\ s.varName # <<>>
    THEN {[s EXCEPT !.calls =
                        Append(s.calls, Call(s.varName, "bare", s.i)),
                    !.finalString =
                        s.finalString \o Coalesce(Resolve(e.fn, s.varName)),
                    !.i = s.i - 1,
                    !.pc = "next"]}
    ELSE {}

------------------------------------------------------------------------------
(* The %VAR% scan. *)

PercentAdvance(e, s) ==
    IF s.pc = "percent"
    THEN {[s EXCEPT !.i = s.i + 1, !.pc = "percentTest"]}
    ELSE {}

PercentScan(e, s) ==
    IF s.pc = "percentTest" /\ PercentSafe(e.variant, charAt(e.str, s.i))
    THEN {[s EXCEPT !.varName = Append(s.varName, charAt(e.str, s.i)),
                    !.pc = "percent"]}
    ELSE {}

(* a % ends the variable name *)
PercentClose(e, s) ==
    IF /\ s.pc = "percentTest"
       /\ ~PercentSafe(e.variant, charAt(e.str, s.i))
       /\ charAt(e.str, s.i) = "%"
    THEN {[s EXCEPT !.calls =
                        Append(s.calls, Call(s.varName, "percent", s.i)),
                    !.finalString =
                        s.finalString \o Coalesce(Resolve(e.fn, s.varName)),
                    !.pc = "next"]}
    ELSE {}

(* another invalid character, strict mode *)
PercentThrow(e, s) ==
    IF /\ s.pc = "percentTest"
       /\ ~PercentSafe(e.variant, charAt(e.str, s.i))
       /\ charAt(e.str, s.i) # "%"
       /\ e.strict
    THEN {[s EXCEPT !.err = IF charAt(e.str, s.i) = ""
                             THEN "UnterminatedVariableError"
                             ELSE "BadCharacterError",
                    !.pc = "done"]}
    ELSE {}

PercentLiteral(e, s) ==
    IF /\ s.pc = "percentTest"
       /\ ~PercentSafe(e.variant, charAt(e.str, s.i))
       /\ charAt(e.str, s.i) # "%"
       /\ ~e.strict
    THEN {[s EXCEPT !.finalString =
                        Cat(Append(s.finalString, "%") \o s.varName,
                            charAt(e.str, s.i)),
                    !.pc = "next"]}
    ELSE {}

------------------------------------------------------------------------------
(* The whole call as a function of its arguments *)

Step(e, s) ==
    CASE s.pc = "outer" ->
             Return(e, s) \cup DollarEscape(e, s) \cup NoName(e, s)
               \cup EmptyBrace(e, s) \cup BraceOpen(e, s) \cup BareOpen(e, s)
               \cup PercentEscape(e, s) \cup PercentOpen(e, s)
               \cup NormalCharacter(e, s)
      [] s.pc = "next" -> LoopUpdate(e, s)
      [] s.pc = "brace" -> BraceAdvance(e, s)
      [] s.pc = "braceTest" ->
             BraceScan(e, s) \cup BraceClose(e, s) \cup BraceThrow(e, s)
               \cup BraceLiteral(e, s)
      [] s.pc = "bare" -> BareAdvance(e, s)
      [] s.pc = "bareTest" ->
             BareScan(e, s) \cup BareEmpty(e, s) \cup BareClose(e, s)
      [] s.pc = "percent" -> PercentAdvance(e, s)
      [] s.pc = "percentTest" ->
             PercentScan(e, s) \cup PercentClose(e, s)
               \cup PercentThrow(e, s) \cup PercentLiteral(e, s)
      [] OTHER -> {}

RECURSIVE Finish(_, _)
Finish(e, s) ==
    IF s.pc = "done" THEN s
    ELSE Finish(e, CHOOSE t \in Step(e, s) : TRUE)

substitute(e) == Finish(e, Start)

------------------------------------------------------------------------------
(* The steps of the call in progress, each at its place in the code *)

DoReturn ==
    pc = "outer" /\ \E t \in Return(Env, Cur) : Apply(t)

DoDollarEscape ==
    pc = "outer" /\ \E t \in DollarEscape(Env, Cur) : Apply(t)

DoNoName ==
    pc = "outer" /\ \E t \in NoName(Env, Cur) : Apply(t)

DoEmptyBrace ==
    pc = "outer" /\ \E t \in EmptyBrace(Env, Cur) : Apply(t)

DoBraceOpen ==
    pc = "outer" /\ \E t \in BraceOpen(Env, Cur) : Apply(t)

DoBareOpen ==
    pc = "outer" /\ \E t \in BareOpen(Env, Cur) : Apply(t)

DoPercentEscape ==
    pc = "outer" /\ \E t \in PercentEscape(Env, Cur) : Apply(t)

DoPercentOpen ==
    pc = "outer" /\ \E t \in PercentOpen(Env, Cur) : Apply(t)

DoNormalCharacter ==
    pc = "outer" /\ \E t \in NormalCharacter(Env, Cur) : Apply(t)

DoLoopUpdate ==
    pc = "next" /\ \E t \in LoopUpdate(Env, Cur) : Apply(t)

DoBraceAdvance ==
    pc = "brace" /\ \E t \in BraceAdvance(Env, Cur) : Apply(t)

DoBraceScan ==
    pc = "braceTest" /\ \E t \in BraceScan(Env, Cur) : Apply(t)

DoBraceClose ==
    pc = "braceTest" /\ \E t \in BraceClose(Env, Cur) : Apply(t)

DoBraceThrow ==
    pc = "braceTest" /\ \E t \in BraceThrow(Env, Cur) : Apply(t)

DoBraceLiteral ==
    pc = "braceTest" /\ \E t \in BraceLiteral(Env, Cur) : Apply(t)

DoBareAdvance ==
    pc = "bare" /\ \E t \in BareAdvance(Env, Cur) : Apply(t)

DoBareScan ==
    pc = "bareTest" /\ \E t \in BareScan(Env, Cur) : Apply(t)

DoBareEmpty ==
    pc = "bareTest" /\ \E t \in BareEmpty(Env, Cur) : Apply(t)

DoBareClose ==
    pc = "bareTest" /\ \E t \in BareClose(Env, Cur) : Apply(t)

DoPercentAdvance ==
    pc = "percent" /\ \E t \in PercentAdvance(Env, Cur) : Apply(t)

DoPercentScan ==
    pc = "percentTest" /\ \E t \in PercentScan(Env, Cur) : Apply(t)

DoPercentClose ==
    pc = "percentTest" /\ \E t \in PercentClose(Env, Cur) : Apply(t)

DoPercentThrow ==
    pc = "percentTest" /\ \E t \in PercentThrow(Env, Cur) : Apply(t)

DoPercentLiteral ==
    pc = "percentTest" /\ \E t \in PercentLiteral(Env, Cur) : Apply(t)


Next ==
    \/ DoReturn
    \/ DoDollarEscape
    \/ DoNoName
    \/ DoEmptyBrace
    \/ DoBraceOpen
    \/ DoBareOpen
    \/ DoPercentEscape
    \/ DoPercentOpen
    \/ DoNormalCharacter
    \/ DoLoopUpdate
    \/ DoBraceAdvance
    \/ DoBraceScan
    \/ DoBraceClose
    \/ DoBraceThrow
    \/ DoBraceLiteral
    \/ DoBareAdvance
    \/ DoBareScan
    \/ DoBareEmpty
    \/ DoBareClose
    \/ DoPercentAdvance
    \/ DoPercentScan
    \/ DoPercentClose
    \/ DoPercentThrow
    \/ DoPercentLiteral

Spec == Init /\ [][Next]_vars

------------------------------------------------------------------------------
(* Calls that put one character of any kind inside each form of reference *)

(* "\\u1234" stands for the character U+1234 of the tests, "\\t" for the   *)
(* tab character, "\\x7f" for DEL and "\\" is the backslash.                *)
Characters ==
    LowerCase \cup UpperCase \cup Digits
      \cup {" ", "!", "\"", "#", "$", "%", "&", "'", "(", ")", "*", "+", ",",
            "-", ".", "/", ":", ";", "<", "=", ">", "?", "@", "[", "\\", "]",
            "^", "_", GraveAccent, "{", "|", "}", "~"}
      \cup {"\\u1234", "\\0", "\\t", "\\x7f"}

(* The inputs ${c}, ${ac}, %c%, %ac% and $c for a character c. *)
Probes ==
    UNION {{<<"$", "{", c, "}">>, <<"$", "{", "a", c, "}">>,
            <<"%", c, "%">>, <<"%", "a", c, "%">>, <<"$", c>>} :
               c \in Characters}

CharInit ==
    /\ str \in Probes
    /\ fn \in Resolvers
    /\ percent \in BOOLEAN
    /\ dollar \in BOOLEAN
    /\ strict \in BOOLEAN
    /\ variant \in Variants
    /\ i = Start.i
    /\ finalString = Start.finalString
    /\ varName = Start.varName
    /\ pc = Start.pc
    /\ err = Start.err
    /\ returned = Start.returned
    /\ calls = Start.calls
    /\ escapes = Start.escapes

CharSpec == CharInit /\ [][Next]_vars

(* Every call of the two kinds above. *)
AllInit == Init \/ CharInit

AllSpec == AllInit /\ [][Next]_vars

------------------------------------------------------------------------------
(* Properties *)

(* The input from 0-based position k on. *)
Suffix(s, k) == SubSeq(s, k + 1, Len(s))

(* The input before 0-based position k. *)
Prefix(s, k) == IF k < Len(s) THEN SubSeq(s, 1, k) ELSE s

(* The keys of a sequence of calls, in order. *)
Keys(cs) == [k \in 1 .. Len(cs) |-> cs[k].key]

(* The same call in the other mode. *)
StrictCall == substitute([Env EXCEPT !.strict = TRUE])
LenientCall == substitute([Env EXCEPT !.strict = FALSE])

(* C1: lenient mode, dollar enabled: when the scan meets an empty ${} it   *)
(* emits the text ${} and goes on with the character after the }, so the   *)
(* call returns what was emitted so far, then ${}, then the result of      *)
(* scanning the rest of the input, with the resolver calls of that rest.   *)
C1_EmptyBraceContinues ==
    (pc = "outer" /\ ~strict /\ AtEmptyBrace(Env, Cur)) =>
        LET end == Finish(Env, Cur)
            rest == substitute([Env EXCEPT !.str = Suffix(str, i + 3)])
        IN  /\ end.returned
            /\ end.finalString =
                   finalString \o <<"$", "{", "}">> \o rest.finalString
            /\ Keys(end.calls) = Keys(calls) \o Keys(rest.calls)

(* A bound on the steps left: every step lowers it. *)
Rank ==
    CASE pc \in {"braceTest", "bareTest", "percentTest"} -> 5
      [] pc = "outer" -> 3
      [] pc \in {"brace", "bare", "percent"} -> 2
      [] OTHER -> 0

Measure == 4 * (Len(str) + 2 - i) + Rank

(* C2: in lenient mode the call terminates and returns a string, raising   *)
(* none of the three errors: until it has returned a step is always        *)
(* possible, every step lowers a measure that stays at or above zero, and  *)
(* no step raises.                                                         *)
C2_LenientTotal ==
    /\ [][~strict => (Measure' < Measure /\ err' = None)]_vars
    /\ []((~strict /\ pc # "done") => Step(Env, Cur) # {})
    /\ []((~strict /\ pc = "done") => returned)
    /\ [](Measure >= 0)

(* A lenient call has returned on an input for which the strict call       *)
(* raises.                                                                 *)
C2_Witness ==
    /\ ~strict
    /\ pc = "done"
    /\ returned
    /\ StrictCall.err # None

(* What the step about to be taken is looking at: the kind of malformed    *)
(* reference, or None.                                                     *)
MetMalformed ==
    CASE pc = "outer" /\ AtEmptyBrace(Env, Cur) -> "NoNameError"
      [] pc = "braceTest" /\ charAt(str, i) = "" -> "UnterminatedVariableError"
      [] pc = "percentTest" /\ charAt(str, i) = "" ->
             "UnterminatedVariableError"
      [] /\ pc = "braceTest"
         /\ charAt(str, i) \notin {"", "}"}
         /\ (charAt(str, i) = "=" \/ ~BraceSafe(variant, charAt(str, i))) ->
             "BadCharacterError"
      [] /\ pc = "percentTest"
         /\ charAt(str, i) \notin {"", "%"}
         /\ (charAt(str, i) = "=" \/ ~PercentSafe(variant, charAt(str, i))) ->
             "BadCharacterError"
      [] OTHER -> None

(* C3: in strict mode a step raises exactly when it meets a malformed      *)
(* reference, with the error of that kind; no other step raises, the bare  *)
(* $ form included; and a call that raised has returned nothing.           *)
C3_StrictRaises ==
    /\ [][strict => err' = MetMalformed]_vars
    /\ [](err # None => (pc = "done" /\ ~returned))

(* A strict call has raised after it had already emitted text and passed   *)
(* a $ that starts no name.                                                *)
C3_Witness ==
    /\ strict
    /\ err = "BadCharacterError"
    /\ finalString = <<"$", "}">>

(* C4: when the strict call returns, the lenient call with the same        *)
(* arguments returns the identical string.                                 *)
C4_StrictReturnsAsLenient ==
    (pc = "done" /\ strict /\ err = None) =>
        /\ returned
        /\ LenientCall.returned
        /\ LenientCall.err = None
        /\ LenientCall.finalString = finalString

(* A strict call has returned after resolving a reference. *)
C4_Witness ==
    /\ pc = "done"
    /\ strict
    /\ returned
    /\ calls # <<>>

(* The 0-based position of the delimiter that opened the reference being   *)
(* scanned.                                                                *)
OpenedAt ==
    IF pc = "braceTest" THEN i - Len(varName) - 2 ELSE i - Len(varName) - 1

(* C5: in lenient mode a brace or percent reference cut short by a         *)
(* disallowed character or by the end of the input is reproduced as it is  *)
(* in the input, from its opening delimiter to the offending character,    *)
(* without a resolver call, and the outer scan goes on after the offending *)
(* character.                                                              *)
C5_LenientVerbatim ==
    /\ [][(/\ ~strict
           /\ pc \in {"braceTest", "percentTest"}
           /\ MetMalformed # None) =>
              /\ finalString' =
                     finalString \o Suffix(Prefix(str, i + 1), OpenedAt)
              /\ calls' = calls
              /\ err' = None
              /\ pc' = "next"
              /\ i' = i]_vars
    /\ [][pc = "next" => (pc' = "outer" /\ i' = i + 1)]_vars

(* A lenient call has returned ${a= as it was given. *)
C5_Witness ==
    /\ ~strict
    /\ pc = "done"
    /\ returned
    /\ str = <<"$", "{", "a", "=">>
    /\ finalString = str
    /\ calls = <<>>

(* The step about to be taken reaches the terminator of a reference. *)
AtTerminator ==
    \/ pc = "braceTest" /\ charAt(str, i) = "}"
    \/ pc = "bareTest" /\ varName # <<>> /\ charAt(str, i) \notin CHARS_DOLLAR
    \/ pc = "percentTest" /\ charAt(str, i) = "%"

(* The name of the reference being scanned, as it is in the input. *)
NameInInput == SubSeq(str, i - Len(varName) + 1, i)

(* C6: the resolver is invoked once, with the name of the reference, by    *)
(* each step that reaches the terminator of a reference, and by no other   *)
(* step; the invocations are in the order of the references in the input.  *)
C6_ResolverCalls ==
    /\ [][IF AtTerminator
          THEN /\ Len(calls') = Len(calls) + 1
               /\ SubSeq(calls', 1, Len(calls)) = calls
               /\ calls'[Len(calls')].key = NameInInput
               /\ calls'[Len(calls')].at = i
          ELSE calls' = calls]_vars
    /\ [](\A j, k \in 1 .. Len(calls) : j < k => calls[j].at < calls[k].at)

(* Two occurrences of the same name have caused two invocations. *)
C6_Witness ==
    /\ pc = "done"
    /\ Len(calls) = 2
    /\ calls[1].key = calls[2].key

(* The characters a well-formed name is made of, in the model's alphabet. *)
BraceNameChars == Alphabet \ {"}", "="}
PercentNameChars == Alphabet \ {"%", "="}
BareNameChars == {"a"}

(* s holds no delimiter. *)
Plain(s) == \A k \in 1 .. Len(s) : s[k] \notin {"$", "%"}

IsBraceRef(r) ==
    /\ Len(r) >= 4
    /\ r[1] = "$" /\ r[2] = "{" /\ r[Len(r)] = "}"
    /\ \A k \in 3 .. Len(r) - 1 : r[k] \in BraceNameChars

IsBareRef(r) ==
    /\ Len(r) >= 2
    /\ r[1] = "$"
    /\ \A k \in 2 .. Len(r) : r[k] \in BareNameChars

IsPercentRef(r) ==
    /\ Len(r) >= 3
    /\ r[1] = "%" /\ r[Len(r)] = "%"
    /\ \A k \in 2 .. Len(r) - 1 : r[k] \in PercentNameChars

(* The value of fn for a key, the empty string when it has none. *)
ValueOf(key) ==
    IF Resolve(fn, key) = Undefined THEN <<>> ELSE Resolve(fn, key).val

(* The call has returned the string out. *)
Returns(out) == returned /\ err = None /\ finalString = out

(* The call on literal text, one well-formed reference r and literal text  *)
(* has returned the first text, the value of the name, the second text.    *)
OneReferenceReplaced ==
    \A p \in 1 .. Len(str) : \A q \in p .. Len(str) :
        LET pre == SubSeq(str, 1, p - 1)
            r == SubSeq(str, p, q)
            post == SubSeq(str, q + 1, Len(str))
        IN  (Plain(pre) /\ Plain(post)) =>
              /\ (dollar /\ IsBraceRef(r)) =>
                     Returns(pre \o ValueOf(SubSeq(r, 3, Len(r) - 1)) \o post)
              /\ (/\ dollar
                  /\ IsBareRef(r)
                  /\ (post = <<>> \/ post[1] \notin BareNameChars)) =>
                     Returns(pre \o ValueOf(SubSeq(r, 2, Len(r))) \o post)
              /\ (percent /\ IsPercentRef(r)) =>
                     Returns(pre \o ValueOf(SubSeq(r, 2, Len(r) - 1)) \o post)

AtEscape ==
    /\ pc = "outer"
    /\ \/ dollar /\ charAt(str, i) = "$" /\ charAt(str, i + 1) = "$"
       \/ percent /\ charAt(str, i) = "%" /\ charAt(str, i + 1) = "%"

(* C8: a doubled delimiter whose switch is enabled gives one literal       *)
(* delimiter and no resolver call, whatever follows it, and the text after *)
(* the second delimiter is scanned as ordinary input: the call ends as the *)
(* call on that text does, in both modes.                                  *)
C8_EscapeFirst ==
    AtEscape =>
        LET end == Finish(Env, Cur)
            rest == substitute([Env EXCEPT !.str = Suffix(str, i + 2)])
        IN  /\ end.finalString =
                   Append(finalString, charAt(str, i)) \o rest.finalString
            /\ Keys(end.calls) = Keys(calls) \o Keys(rest.calls)
            /\ end.err = rest.err
            /\ end.returned = rest.returned

(* $$a has given $a without a resolver call. *)
C8_Witness ==
    /\ pc = "done"
    /\ dollar
    /\ str = <<"$", "$", "a">>
    /\ finalString = <<"$", "a">>
    /\ calls = <<>>

(* The outer scan is on a delimiter whose switch is disabled. *)
AtDisabledDelimiter ==
    /\ pc = "outer"
    /\ \/ ~dollar /\ charAt(str, i) = "$"
       \/ ~percent /\ charAt(str, i) = "%"

(* C9 as stated: with a switch disabled every occurrence of its delimiter  *)
(* is copied to the output as a literal character, so none is part of a    *)
(* name given to the resolver.                                             *)
C9_EveryDelimiterLiteral ==
    \A k \in 1 .. Len(calls) : \A n \in 1 .. Len(calls[k].key) :
        /\ ~dollar => calls[k].key[n] # "$"
        /\ ~percent => calls[k].key[n] # "%"

(* C9 amended: with a switch disabled every occurrence of its delimiter    *)
(* that the outer scan meets is copied to the output as a literal          *)
(* character, doubled or not, without an error or a resolver call; with    *)
(* both switches disabled the call returns the input and never calls the   *)
(* resolver.                                                               *)
C9_DisabledDelimiterLiteral ==
    /\ [][AtDisabledDelimiter =>
              /\ finalString' = Append(finalString, charAt(str, i))
              /\ pc' = "next"
              /\ i' = i
              /\ err' = None
              /\ calls' = calls
              /\ escapes' = escapes]_vars
    /\ []((pc = "done" /\ ~dollar /\ ~percent) =>
              (Returns(str) /\ calls = <<>> /\ escapes = <<>>))

(* With dollar disabled $$%% has given $$% . *)
C9_Witness ==
    /\ pc = "done"
    /\ ~dollar
    /\ percent
    /\ str = <<"$", "$", "%", "%">>
    /\ finalString = <<"$", "$", "%">>

(* The same call with the dollar, or the percent, switch flipped. *)
DollarFlipped == substitute([Env EXCEPT !.dollar = ~dollar])
PercentFlipped == substitute([Env EXCEPT !.percent = ~percent])

(* The references of the given forms resolved and the escapes of the given *)
(* delimiter collapsed by a call that ended in t.                          *)
Resolved(t, forms) == SelectSeq(t.calls, LAMBDA c : c.form \in forms)
Collapsed(t, char) == SelectSeq(t.escapes, LAMBDA x : x.char = char)

(* The input holds an empty ${}. *)
HasEmptyBrace ==
    \E k \in 1 .. Len(str) - 2 :
        str[k] = "$" /\ str[k + 1] = "{" /\ str[k + 2] = "}"

Has(s, c) == \E k \in 1 .. Len(s) : s[k] = c

(* How a call ended: what it returned or raised, and what it resolved and  *)
(* collapsed on the way.                                                   *)
Outcome(t) == <<t.returned, t.err, t.finalString, t.calls, t.escapes>>

PrintableASCII == Characters \ {"\\u1234", "\\0", "\\t", "\\x7f"}

(* The step rejects the character under the cursor inside a reference      *)
(* opened by open: BadCharacterError in strict mode, the literal fallback  *)
(* in lenient mode.                                                        *)
RejectsCharacter(open) ==
    IF strict
    THEN err' = "BadCharacterError" /\ pc' = "done" /\ calls' = calls
    ELSE /\ err' = None
         /\ finalString' =
                Append(finalString \o open \o varName, charAt(str, i))
         /\ calls' = calls
         /\ pc' = "next"

(* The step appends the character under the cursor to the name. *)
AcceptsCharacter(scanning) ==
    /\ varName' = Append(varName, charAt(str, i))
    /\ finalString' = finalString
    /\ err' = None
    /\ pc' = scanning

(* C11: in the revision with the inclusion tables, a character met inside  *)
(* ${ } other than the closing } is appended to the name exactly when it   *)
(* is printable ASCII and not =, and a character met inside % % other than *)
(* the closing % exactly when it is printable ASCII and not =; every other *)
(* character raises BadCharacterError in strict mode and takes the literal *)
(* fallback in lenient mode.                                               *)
C11_NameCharacters ==
    [][variant = "table" =>
          /\ (pc = "braceTest" /\ charAt(str, i) \notin {"", "}"}) =>
                 IF charAt(str, i) \in PrintableASCII \ {"}", "="}
                 THEN AcceptsCharacter("brace")
                 ELSE RejectsCharacter(<<"$", "{">>)
          /\ (pc = "percentTest" /\ charAt(str, i) \notin {"", "%"}) =>
                 IF charAt(str, i) \in PrintableASCII \ {"%", "="}
                 THEN AcceptsCharacter("percent")
                 ELSE RejectsCharacter(<<"%">>)]_vars

(* The step about to be taken ends a non-empty bare name. *)
EndsBareName ==
    /\ pc = "bareTest"
    /\ varName # <<>>
    /\ ~BareSafe(variant, charAt(str, i))

(* The 0-based position at which the outer-loop iteration in progress      *)
(* started.                                                                *)
IterationStart == IF pc = "outer" THEN i ELSE OpenedAt

(* The last of the calls cs of fn was for a bare name, and the character   *)
(* that ended that name is at 0-based position k.                          *)
BareNameEndedAt(cs, k) ==
    /\ cs # <<>>
    /\ cs[Len(cs)].form = "bare"
    /\ cs[Len(cs)].at = k

(* C12: the step that ends a non-empty bare name moves the cursor back by  *)
(* one and consumes nothing more, so that the loop update puts the outer   *)
(* scan on the character that ended the name and the call goes on as a     *)
(* call on the input from that character; no other step moves the cursor   *)
(* back; and every iteration of the outer loop that reaches the loop       *)
(* update leaves the cursor beyond the position where it started.          *)
C12_BareRetreat ==
    /\ [][EndsBareName =>
              (i' = i - 1 /\ pc' = "next" /\ BareNameEndedAt(calls', i))]_vars
    /\ [][(pc = "next" /\ BareNameEndedAt(calls, i + 1)) =>
              (pc' = "outer" /\ i' = i + 1 /\ finalString' = finalString)]_vars
    /\ []((pc = "outer" /\ BareNameEndedAt(calls, i)) =>
              LET end == Finish(Env, Cur)
                  rest == substitute([Env EXCEPT !.str = Suffix(str, i)])
              IN  /\ end.finalString = finalString \o rest.finalString
                  /\ Keys(end.calls) = Keys(calls) \o Keys(rest.calls)
                  /\ end.err = rest.err)
    /\ [][i' < i => (EndsBareName /\ i' = i - 1)]_vars
    /\ [][pc' = "next" => i' + 1 > IterationStart]_vars

(* The outer scan is on the % that ended a bare name, about to open a      *)
(* percent reference there.                                                *)
C12_Witness ==
    /\ pc = "outer"
    /\ BareNameEndedAt(calls, i)
    /\ charAt(str, i) = "%"
    /\ percent
    /\ charAt(str, i + 1) = "a"

(* The ASCII letters, the digits and the underscore. *)
IdentifierCharacters == LowerCase \cup UpperCase \cup Digits \cup {"_"}

(* C13: every name the resolver has been called with is non-empty and      *)
(* holds no = ; a name of the bare form is made of ASCII letters, digits   *)
(* and underscores only, a name of the ${ } form holds no } and a name of  *)
(* the % % form holds no % .                                               *)
C13_ResolverNames ==
    \A n \in 1 .. Len(calls) :
        LET key == calls[n].key
            form == calls[n].form
        IN  /\ key # <<>>
            /\ ~Has(key, "=")
            /\ form = "bare" =>
                   \A k \in 1 .. Len(key) : key[k] \in IdentifierCharacters
            /\ form = "brace" => ~Has(key, "}")
            /\ form = "percent" => ~Has(key, "%")

(* The resolver has been called with a name from ${ } that holds a         *)
(* character beyond ASCII.                                                 *)
C13_Witness ==
    /\ pc = "done"
    /\ Len(calls) = 1
    /\ calls[1].form = "brace"
    /\ calls[1].key = <<"a", "\\u1234">>

====
